---- MODULE Spec2Model ----
(***************************************************************************)
(* Model of src/quantization/optimal_quantization.py: optimal quantization *)
(* (competitive learning) and Karcher flow on the spheres S1 and S2.       *)
(*                                                                         *)
(* Reals are fixed-point numbers on a grid: ONE grid units are 1.0, Half   *)
(* grid units are pi. A point of the sphere is its angle on a great circle *)
(* (the whole of S1; for S2 the clouds lie on one great circle, which the  *)
(* geodesic distance, exponential and logarithm never leave), counted in   *)
(* grid units modulo Circ = 2 * Half. A quotient is rounded away from zero *)
(* to the grid, so that, as in the reals, it is zero only when its         *)
(* dividend is and never exceeds the dividend in magnitude. Arrays are     *)
(* functions on 0 .. n-1, as numpy indexes them.                           *)
(***************************************************************************)
EXTENDS Integers, FiniteSets, Sequences, TLC

\* ------------------------------------------------------------ the grid
ONE == 2                     \* 1.0, the gap both loops start from
Half == 6                    \* pi, the distance of two antipodal points
Circ == 2 * Half
Pos == 0 .. (Circ - 1)

\* ------------------------------------------------------------ bounds
MaxN == 3          \* longest cloud enumerated (besides TwoPairs)
MaxCenters == 2    \* largest n_centers enumerated
MaxStep == 6       \* the step counter is exact below MaxStep and stays there
CloudPos == {0, 1, 4}
\* Two tight pairs, {0, 2} and {5, 7}: no two of the four points are antipodal.
TwoPairs == [i \in 0 .. 3 |-> CASE i = 0 -> 0 [] i = 1 -> 2 [] i = 2 -> 5 [] OTHER -> 7]
\* Two antipodal points.
Antipodes == [i \in 0 .. 1 |-> IF i = 0 THEN 0 ELSE Half]

\* ------------------------------------------------------------ program constants
TOLERANCE == 1               \* 1e-5: the smallest positive distance of the grid
IMPLEMENTED == {"S1", "S2"}
DEFAULT_N_REPETITION == 20   \* n_repetition=20

NoPoint == Circ              \* a point variable not yet assigned
Empty == [i \in {} |-> 0]    \* an array not yet created

\* ------------------------------------------------------------ array helpers
Size(a) == Cardinality(DOMAIN a)

Max(S) == CHOOSE x \in S : \A y \in S : y <= x

Quotient(a, b) == IF a >= 0 THEN (a + b - 1) \div b ELSE -((b - a - 1) \div b)

RECURSIVE SumTo(_, _)
SumTo(f, n) == IF n = 0 THEN 0 ELSE f[n - 1] + SumTo(f, n - 1)

\* ------------------------------------------------------------ HypersphereMetric
dist(a, b) ==
    LET d == (a - b) % Circ
    IN IF d <= Half THEN d ELSE Circ - d

log(point, base_point) ==
    LET d == (point - base_point) % Circ
    IN IF d <= Half THEN d ELSE d - Circ

exp(tangent_vec, base_point) == (base_point + tangent_vec) % Circ

MetricFor(s) == IF s = "S1" THEN 1 ELSE 2

\* ------------------------------------------------------------ closest_neighbor
\* Mutant: argmax in place of argmin.
closest_neighbor_Farthest(p, neighbors) ==
    CHOOSE i \in DOMAIN neighbors :
        /\ \A j \in DOMAIN neighbors : dist(p, neighbors[i]) >= dist(p, neighbors[j])
        /\ \A j \in DOMAIN neighbors :
               j < i => dist(p, neighbors[i]) > dist(p, neighbors[j])

\* dist.argmin(): the first index of a minimal distance.
closest_neighbor(p, neighbors) ==
    CHOOSE i \in DOMAIN neighbors :
        /\ \A j \in DOMAIN neighbors : dist(p, neighbors[i]) <= dist(p, neighbors[j])
        /\ \A j \in DOMAIN neighbors :
               j < i => dist(p, neighbors[i]) < dist(p, neighbors[j])

VARIABLES op, points, space, n_centers, n_repetition, tolerance, point,
          pc, error, result, metric, rng_used, metric_used,
          centers, gap, step, k, sample, index,
          clustering, weights, i_label, karcher_mean

vars == <<op, points, space, n_centers, n_repetition, tolerance, point,
          pc, error, result, metric, rng_used, metric_used,
          centers, gap, step, k, sample, index,
          clustering, weights, i_label, karcher_mean>>

inputs == <<op, points, space, n_centers, n_repetition, tolerance, point>>

\* ------------------------------------------------------------ the calls enumerated
Ops == {"sample_from", "closest_neighbor", "diameter_of_data", "karcher_flow",
        "optimal_quantization"}
Spaces == {"S1", "S2", "S3", "None"}
Clouds == UNION {[0 .. (n - 1) -> CloudPos] : n \in 0 .. MaxN} \cup {TwoPairs, Antipodes}
Repetitions == {1, 2, DEFAULT_N_REPETITION}
Tolerances == 1 .. ONE

\* Mutant: the default space None slips through the catalog test.
Unsupported_NoneAccepted(s) == s \notin IMPLEMENTED /\ s # "None"

Unsupported(s) == s \notin IMPLEMENTED

\* One call of one operation, its arguments drawn from the sets above.
Init ==
    /\ op \in Ops
    /\ points \in Clouds
    /\ space \in (IF op = "sample_from" THEN {"None"} ELSE Spaces)
    /\ n_centers \in (IF op = "optimal_quantization" THEN 1 .. MaxCenters ELSE {1})
    /\ n_repetition \in (IF op = "optimal_quantization" THEN Repetitions
                          ELSE {DEFAULT_N_REPETITION})
    /\ tolerance \in (IF op \in {"optimal_quantization", "karcher_flow"}
                       THEN Tolerances ELSE {TOLERANCE})
    /\ point \in (IF op = "closest_neighbor" THEN CloudPos ELSE {NoPoint})
    /\ pc = "start"
    /\ error = "none"
    /\ result = << >>
    /\ metric = 0
    /\ rng_used = FALSE
    /\ metric_used = FALSE
    /\ centers = Empty
    /\ gap = 0
    /\ step = 0
    /\ k = 0
    /\ sample = NoPoint
    /\ index = 0
    /\ clustering = Empty
    /\ weights = Empty
    /\ i_label = 0
    /\ karcher_mean = NoPoint

\* raise NotImplementedError: nothing else of the call is executed.
RaiseUnsupported ==
    /\ pc' = "error"
    /\ error' = "NotImplementedError"
    /\ UNCHANGED <<inputs, result, metric, rng_used, metric_used, centers, gap, step,
                   k, sample, index, clustering, weights, i_label, karcher_mean>>

\* np.random.randint(low=0, high=0, ...) raises ValueError before drawing.
RaiseEmpty(m) ==
    /\ pc' = "error"
    /\ error' = "ValueError"
    /\ metric' = m
    /\ UNCHANGED <<inputs, result, rng_used, metric_used, centers, gap, step,
                   k, sample, index, clustering, weights, i_label, karcher_mean>>

\* ------------------------------------------------------------ sample_from
SampleFromCall ==
    /\ pc = "start"
    /\ op = "sample_from"
    /\ IF Size(points) = 0
       THEN RaiseEmpty(metric)
       ELSE \E d \in DOMAIN points :
              /\ result' = <<points[d]>>
              /\ rng_used' = TRUE
              /\ pc' = "done"
              /\ UNCHANGED <<inputs, error, metric, metric_used, centers, gap, step, k,
                             sample, index, clustering, weights, i_label, karcher_mean>>

\* ------------------------------------------------------------ closest_neighbor
ClosestNeighborCall ==
    /\ pc = "start"
    /\ op = "closest_neighbor"
    /\ IF Unsupported(space)
       THEN RaiseUnsupported
       ELSE IF Size(points) = 0
       THEN \* argmin of an empty array raises ValueError
            /\ pc' = "error"
            /\ error' = "ValueError"
            /\ metric' = MetricFor(space)
            /\ metric_used' = TRUE
            /\ UNCHANGED <<inputs, result, rng_used, centers, gap, step, k, sample,
                           index, clustering, weights, i_label, karcher_mean>>
       ELSE /\ result' = <<closest_neighbor(point, points)>>
            /\ metric' = MetricFor(space)
            /\ metric_used' = TRUE
            /\ pc' = "done"
            /\ UNCHANGED <<inputs, error, rng_used, centers, gap, step, k, sample,
                           index, clustering, weights, i_label, karcher_mean>>

\* ------------------------------------------------------------ diameter_of_data
\* Mutant: the running maximum is overwritten by the latest candidate.
RunningMax_Latest(diameter, candidate) == candidate

\* np.maximum(diameter, dist_to_farthest_neighbor * 2)
RunningMax(diameter, candidate) == Max({diameter, candidate})

RECURSIVE DiameterLoop(_, _, _)
DiameterLoop(pts, i, diameter) ==
    IF i >= Size(pts) - 1
    THEN diameter
    ELSE LET dist_to_farthest_neighbor ==
                 Max({dist(pts[i], pts[j]) : j \in (i + 1) .. (Size(pts) - 1)})
         IN DiameterLoop(pts, i + 1, RunningMax(diameter, dist_to_farthest_neighbor * 2))

diameter_of_data(pts) == DiameterLoop(pts, 0, 0)

DiameterCall ==
    /\ pc = "start"
    /\ op = "diameter_of_data"
    /\ IF Unsupported(space)
       THEN RaiseUnsupported
       ELSE /\ result' = <<diameter_of_data(points)>>
            /\ metric' = MetricFor(space)
            /\ metric_used' = (Size(points) >= 2)
            /\ pc' = "done"
            /\ UNCHANGED <<inputs, error, rng_used, centers, gap, step, k, sample,
                           index, clustering, weights, i_label, karcher_mean>>

\* ------------------------------------------------------------ karcher_flow
\* step += 1; a count of MaxStep stands for every count from MaxStep on.
NextStep(s) == IF s < MaxStep THEN s + 1 ELSE s

MeanTangent(total, n_points) == Quotient(total, n_points)

\* One pass of the while body: the updated mean.
KarcherUpdate(pts, mean) ==
    LET n_points == Size(pts)
        tangent_vectors == [i \in 0 .. (n_points - 1) |-> log(pts[i], mean)]
        tan_vec_update == MeanTangent(SumTo(tangent_vectors, n_points), n_points)
    IN exp(tan_vec_update, mean)

\* The whole while loop from a given mean and gap, at most fuel passes.
RECURSIVE KarcherRun(_, _, _, _, _)
KarcherRun(pts, tol, mean, g, fuel) ==
    IF ~(g > tol) THEN [returned |-> TRUE, mean |-> mean]
    ELSE IF fuel = 0 THEN [returned |-> FALSE, mean |-> mean]
    ELSE LET karcher_mean_updated == KarcherUpdate(pts, mean)
         IN KarcherRun(pts, tol, karcher_mean_updated,
                       dist(mean, karcher_mean_updated), fuel - 1)

\* karcher_flow when sample_from draws the cloud's point d.
KarcherFlowFrom(pts, tol, d) == KarcherRun(pts, tol, pts[d], ONE, MaxStep)

KarcherStart ==
    /\ pc = "start"
    /\ op = "karcher_flow"
    /\ IF Unsupported(space)
       THEN RaiseUnsupported
       ELSE IF Size(points) = 0
       THEN RaiseEmpty(MetricFor(space))
       ELSE \E d \in DOMAIN points :
              /\ karcher_mean' = points[d]
              /\ metric' = MetricFor(space)
              /\ rng_used' = TRUE
              /\ gap' = ONE
              /\ step' = 0
              /\ pc' = "karcher_loop"
              /\ UNCHANGED <<inputs, error, result, metric_used, centers, k, sample,
                             index, clustering, weights, i_label>>

KarcherStep ==
    /\ pc = "karcher_loop"
    /\ gap > tolerance
    /\ LET karcher_mean_updated == KarcherUpdate(points, karcher_mean)
       IN /\ gap' = dist(karcher_mean, karcher_mean_updated)
          /\ karcher_mean' = karcher_mean_updated
    /\ step' = NextStep(step)
    /\ metric_used' = TRUE
    /\ UNCHANGED <<inputs, pc, error, result, metric, rng_used, centers, k, sample,
                   index, clustering, weights, i_label>>

KarcherReturn ==
    /\ pc = "karcher_loop"
    /\ ~(gap > tolerance)
    /\ result' = <<karcher_mean, step>>
    /\ pc' = "done"
    /\ UNCHANGED <<inputs, error, metric, rng_used, metric_used, centers, gap, step, k,
                   sample, index, clustering, weights, i_label, karcher_mean>>

\* ------------------------------------------------------------ optimal_quantization
\* k = np.floor(step / n_repetition) + 1
Epoch(s, n_rep) == (s \div n_rep) + 1

\* Mutant: the zero gap is tested as it is.
TestedGap_Raw(raw) == raw

\* gap = (gap != 0) * gap + (gap == 0)
TestedGap(raw) == IF raw # 0 THEN raw ELSE ONE

\* Mutant: the assignment overwrites every row.
UpdateCenters_AllRows(cs, idx, new_center) == [j \in DOMAIN cs |-> new_center]

\* centers[index, :] = new_center
UpdateCenters(cs, idx, new_center) == [cs EXCEPT ![idx] = new_center]

Rat(num, den) == <<num, den>>

\* weights[index] += 1
CountOne(w, idx) == [w EXCEPT ![idx] = Rat(w[idx][1] + 1, w[idx][2])]

\* Mutant: the counts are returned without the division.
Normalize_Skipped(w, n_points) == w

\* weights = weights / n_points
Normalize(w, n_points) == [j \in DOMAIN w |-> Rat(w[j][1], w[j][2] * n_points)]

QuantStart ==
    /\ pc = "start"
    /\ op = "optimal_quantization"
    /\ IF Unsupported(space)
       THEN RaiseUnsupported
       ELSE IF Size(points) = 0
       THEN RaiseEmpty(MetricFor(space))
       ELSE \E drawn \in [0 .. (n_centers - 1) -> DOMAIN points] :
              /\ centers' = [j \in 0 .. (n_centers - 1) |-> points[drawn[j]]]
              /\ metric' = MetricFor(space)
              /\ rng_used' = TRUE
              /\ gap' = ONE
              /\ step' = 0
              /\ pc' = "loop"
              /\ UNCHANGED <<inputs, error, result, metric_used, k, sample, index,
                             clustering, weights, i_label, karcher_mean>>

\* One pass of the while body, the sample being the cloud's point d.
QuantStep(d) ==
    /\ pc = "loop"
    /\ gap > tolerance
    /\ step' = NextStep(step)
    /\ k' = Epoch(step', n_repetition)
    /\ sample' = points[d]
    /\ index' = closest_neighbor(sample', centers)
    /\ LET center_to_update == centers[index']
           tan_vec_update == Quotient(log(sample', center_to_update), k' + 1)
           new_center == exp(tan_vec_update, center_to_update)
       IN /\ gap' = TestedGap(dist(center_to_update, new_center))
          /\ centers' = UpdateCenters(centers, index', new_center)
    /\ rng_used' = TRUE
    /\ metric_used' = TRUE
    /\ UNCHANGED <<inputs, pc, error, result, metric, clustering, weights, i_label,
                   karcher_mean>>

\* The while test fails: the arrays of the labeling pass are created.
QuantExit ==
    /\ pc = "loop"
    /\ ~(gap > tolerance)
    /\ clustering' = [i \in DOMAIN points |-> 0]
    /\ weights' = [j \in 0 .. (n_centers - 1) |-> Rat(0, 1)]
    /\ i_label' = 0
    /\ pc' = "label"
    /\ UNCHANGED <<inputs, error, result, metric, rng_used, metric_used, centers, gap,
                   step, k, sample, index, karcher_mean>>

LabelStep ==
    /\ pc = "label"
    /\ i_label < Size(points)
    /\ index' = closest_neighbor(points[i_label], centers)
    /\ clustering' = [clustering EXCEPT ![i_label] = index']
    /\ weights' = CountOne(weights, index')
    /\ i_label' = i_label + 1
    /\ metric_used' = TRUE
    /\ UNCHANGED <<inputs, pc, error, result, metric, rng_used, centers, gap, step, k,
                   sample, karcher_mean>>

QuantReturn ==
    /\ pc = "label"
    /\ i_label = Size(points)
    /\ weights' = Normalize(weights, Size(points))
    /\ result' = <<centers, weights', clustering, step>>
    /\ pc' = "done"
    /\ UNCHANGED <<inputs, error, metric, rng_used, metric_used, centers, gap, step, k,
                   sample, index, clustering, i_label, karcher_mean>>

\* ------------------------------------------------------------ specifications
Next ==
    \/ SampleFromCall
    \/ ClosestNeighborCall
    \/ DiameterCall
    \/ KarcherStart
    \/ KarcherStep
    \/ KarcherReturn
    \/ QuantStart
    \/ \E d \in DOMAIN points : QuantStep(d)
    \/ QuantExit
    \/ LabelStep
    \/ QuantReturn

Spec == Init /\ [][Next]_vars

\* The program runs on, and every point of the cloud is drawn again and again.
\* The starts of FairSpec are those whose learning rate at step MaxStep is so
\* small that a winner moves by one grid unit or not at all, as it does at
\* every later step: the steps from MaxStep on are then exactly those of the
\* code.
MaxIndex == Max({Size(c) : c \in Clouds}) - 1

FairInit ==
    /\ Init
    /\ op = "optimal_quantization" => Epoch(MaxStep, n_repetition) + 1 >= Half

FairSpec ==
    /\ FairInit
    /\ [][Next]_vars
    /\ WF_vars(Next)
    /\ \A d \in 0 .. MaxIndex : WF_vars(d \in DOMAIN points /\ QuantStep(d))

\* ------------------------------------------------------------ claims
Supported == space \in {"S1", "S2"}
IsQuant == op = "optimal_quantization"
N == Size(points)

\* C1 -----------------------------------------------------------------------
LabelCount(j) == Cardinality({i \in DOMAIN clustering : clustering[i] = j})

\* C1: when optimal_quantization returns, every label is an index in
\* [0, n_centers), every weight[j] is (the number of points labelled j) / N, and
\* so the weights are non-negative and sum to 1.
C1_LabelsAndWeights ==
    (IsQuant /\ pc = "done") =>
        /\ DOMAIN clustering = DOMAIN points
        /\ \A i \in DOMAIN clustering : clustering[i] \in 0 .. (n_centers - 1)
        /\ DOMAIN weights = 0 .. (n_centers - 1)
        /\ \A j \in DOMAIN weights :
              /\ weights[j][2] > 0
              /\ weights[j][1] * N = LabelCount(j) * weights[j][2]
              /\ weights[j][1] >= 0
              /\ weights[j][2] = weights[0][2]
        /\ SumTo([j \in DOMAIN weights |-> weights[j][1]], n_centers) = weights[0][2]
        /\ result = <<centers, weights, clustering, step>>

C1_Witness ==
    /\ IsQuant /\ pc = "done" /\ N = 3 /\ n_centers = 2 /\ step >= 1
    /\ weights[0][1] = 1 /\ weights[1][1] = 2

\* C2 -----------------------------------------------------------------------
\* C2: a call of closest_neighbor, diameter_of_data, karcher_flow or
\* optimal_quantization with a space outside ('S1', 'S2') ends in the
\* unsupported-manifold error, and nothing else has happened: no random draw, no
\* metric evaluation, no center, no mean, no result.
C2_UnsupportedStops ==
    (/\ op \in {"closest_neighbor", "diameter_of_data", "karcher_flow",
                 "optimal_quantization"}
     /\ space \notin {"S1", "S2"}
     /\ pc # "start") =>
        /\ pc = "error"
        /\ error = "NotImplementedError"
        /\ ~rng_used
        /\ ~metric_used
        /\ metric = 0
        /\ Size(centers) = 0
        /\ karcher_mean = NoPoint
        /\ result = << >>
        /\ Size(clustering) = 0
        /\ Size(weights) = 0
        /\ step = 0

C2_Witness ==
    /\ IsQuant /\ space = "None" /\ N >= 1
    /\ pc = "error" /\ error = "NotImplementedError"

\* C3 -----------------------------------------------------------------------
\* C3: sample_from, diameter_of_data, karcher_flow and optimal_quantization,
\* called on an empty cloud with a supported space, end in an error and return
\* no result.
C3_EmptyFailsFast ==
    (/\ op \in {"sample_from", "diameter_of_data", "karcher_flow",
                 "optimal_quantization"}
     /\ N = 0
     /\ (op = "sample_from" \/ Supported)
     /\ pc # "start") =>
        pc = "error" /\ result = << >>

\* C4 -----------------------------------------------------------------------
\* C4: with a tolerance below 1, every pass of the optimal_quantization loop is
\* entered on a tested gap > tolerance; a pass whose raw gap
\* distance(winner, new_winner) is zero leaves the tested gap at 1 and so does
\* not end the loop; the loop is left only after a pass in which the winner
\* moved by a non-zero distance <= tolerance.
C4_ZeroGapNeverEnds ==
    [][(IsQuant /\ tolerance < ONE) =>
         /\ (pc = "loop" /\ pc' = "loop") =>
               LET raw == dist(centers[index'], centers'[index'])
               IN /\ gap > tolerance
                  /\ raw = 0 => (gap' = ONE /\ gap' > tolerance)
                  /\ raw # 0 => gap' = raw
                  /\ gap' <= tolerance => (raw # 0 /\ raw <= tolerance)
         /\ (pc = "loop" /\ pc' = "label") =>
               (step >= 1 /\ gap # 0 /\ gap <= tolerance)]_vars

\* A pass just drew a sample that coincides with its winner: the raw gap was 0.
C4_Witness ==
    /\ IsQuant /\ tolerance < ONE /\ pc = "loop" /\ step >= 2
    /\ n_centers = 2 /\ centers[0] # centers[1]
    /\ sample = centers[index] /\ gap = ONE

\* C5 -----------------------------------------------------------------------
ClaimedEpoch(s) == (s \div n_repetition) + 1

\* C5: the pass at step s uses k = floor(s / n_repetition) + 1; the rate
\* 1 / (k + 1) never increases; and when it decreases, the rate it leaves was
\* used for n_repetition consecutive steps, the first block included.
C5_RateSchedule ==
    [][(IsQuant /\ pc = "loop" /\ pc' = "loop" /\ step' = step + 1) =>
         /\ k' = ClaimedEpoch(step')
         /\ step >= 1 => k' >= k
         /\ (step >= 1 /\ k' > k) =>
               \A t \in (step - n_repetition + 1) .. step :
                   t >= 1 /\ ClaimedEpoch(t) = k]_vars

\* C6 -----------------------------------------------------------------------
\* The arcs spanned by the two pairs of TwoPairs.
ArcA == {0, 1, 2}
ArcB == {5, 6, 7}

OnePerPair(c) ==
    \/ c[0] \in ArcA /\ c[1] \in ArcB
    \/ c[0] \in ArcB /\ c[1] \in ArcA

TwoPairsCall ==
    /\ IsQuant /\ points = TwoPairs /\ n_centers = 2 /\ space = "S1"
    /\ n_repetition = DEFAULT_N_REPETITION /\ tolerance = TOLERANCE

\* Each center has weight 0.5, and the labels split the points pair by pair.
SplitByPairs ==
    /\ \A j \in 0 .. 1 : weights[j][1] * 2 = weights[j][2]
    /\ clustering[0] = clustering[1]
    /\ clustering[2] = clustering[3]
    /\ clustering[0] # clustering[2]

\* C6 as claimed: on the two-pairs cloud with n_centers = 2 and the default
\* n_repetition and tolerance, every run that returns, whatever was drawn,
\* yields weights 0.5 and 0.5 and labels that split the points pair by pair.
C6_EveryRunSplits ==
    (TwoPairsCall /\ pc = "done") => SplitByPairs

\* C6 as amended: a run whose initial centers are drawn one from each pair
\* keeps one center within each pair's arc at every step, and when it returns
\* it yields weights 0.5 and 0.5 and labels that split the points pair by pair.
C6_SplitsFromOnePerPair ==
    /\ [](TwoPairsCall /\ pc = "done" /\ OnePerPair(centers) => SplitByPairs)
    /\ [][(TwoPairsCall /\ pc = "loop" /\ OnePerPair(centers))
             => OnePerPair(centers')]_vars

C6_Witness ==
    /\ TwoPairsCall /\ pc = "done" /\ OnePerPair(centers) /\ step >= 2
    /\ centers[0] \notin {0, 2, 5, 7}

\* C7 -----------------------------------------------------------------------
PairDistances(pts) ==
    {dist(pts[q[1]], pts[q[2]]) :
        q \in {r \in (DOMAIN pts) \X (DOMAIN pts) : r[1] < r[2]}}

Reorderings(n) ==
    {f \in [0 .. (n - 1) -> 0 .. (n - 1)] :
        \A a, b \in 0 .. (n - 1) : f[a] = f[b] => a = b}

\* C7: for N >= 2 diameter_of_data returns twice the greatest distance over
\* the unordered pairs of the cloud, and returns the same for every
\* permutation of the cloud; for N = 1 it returns 0.
C7_DiameterIsTwiceMaxPair ==
    (op = "diameter_of_data" /\ pc = "done" /\ N >= 1) =>
        /\ N = 1 => result = <<0>>
        /\ N >= 2 =>
              /\ result = <<2 * Max(PairDistances(points))>>
              /\ \A f \in Reorderings(N) :
                    diameter_of_data([i \in 0 .. (N - 1) |-> points[f[i]]]) = result[1]

\* The farthest pair is found in the first row and the last row's candidate is
\* smaller: the running maximum decides the result.
C7_Witness ==
    /\ op = "diameter_of_data" /\ pc = "done" /\ N = 3
    /\ result[1] = 2 * dist(points[0], points[1])
    /\ dist(points[0], points[1]) > dist(points[0], points[2])
    /\ dist(points[0], points[1]) > dist(points[1], points[2])

\* C8 -----------------------------------------------------------------------
TwoPointCall ==
    /\ op = "karcher_flow" /\ Supported /\ N = 2
    /\ dist(points[0], points[1]) # Half

\* The loop is over before the step counter reaches its bound, and the mean
\* is within tolerance of the mean from either draw.
AgreesWithEitherDraw ==
    /\ pc = "karcher_loop" => (step < MaxStep \/ ~(gap > tolerance))
    /\ pc = "done" =>
          \A d \in 0 .. 1 :
              LET other == KarcherFlowFrom(points, tolerance, d)
              IN other.returned /\ dist(karcher_mean, other.mean) <= tolerance

\* C8: on a cloud of two non-antipodal points karcher_flow returns from either
\* initial draw, and the two means returned are within tolerance of each other.
C8_KarcherDrawsAgree ==
    TwoPointCall => AgreesWithEitherDraw

\* The same for a tolerance below 1, the gap the loop starts from (this holds).
C8_KarcherDrawsAgreeBelowOne ==
    (TwoPointCall /\ tolerance < ONE) => AgreesWithEitherDraw

\* C9 -----------------------------------------------------------------------
\* C9: every call of optimal_quantization on a non-empty cloud with a supported
\* space, n_centers >= 1 and a positive tolerance returns, every point of the
\* cloud being drawn again and again.
C9_AlwaysReturns ==
    (IsQuant /\ Supported /\ N >= 1 /\ n_centers >= 1 /\ tolerance > 0 /\ pc = "start")
        ~> (pc = "done")

\* C10 ----------------------------------------------------------------------
\* C10: a pass of the optimal_quantization loop changes only the center at the
\* winner index, the first index of a center nearest to the sample; the other
\* centers, their number and the cloud are unchanged; the labeling pass and the
\* return change no center.
C10_OnlyWinnerChanges ==
    [][IsQuant =>
         /\ points' = points
         /\ n_centers' = n_centers
         /\ pc # "start" => DOMAIN centers' = DOMAIN centers
         /\ pc' \in {"loop", "label", "done"} => DOMAIN centers' = 0 .. (n_centers - 1)
         /\ (pc = "loop" /\ pc' = "loop") =>
               /\ index' \in DOMAIN centers
               /\ \A j \in DOMAIN centers :
                     /\ dist(sample', centers[index']) <= dist(sample', centers[j])
                     /\ j < index' => dist(sample', centers[index']) < dist(sample', centers[j])
                     /\ j # index' => centers'[j] = centers[j]
         /\ (pc = "label" \/ pc' = "label") => centers' = centers]_vars

\* A run that moved a winner past a tie and went through the labeling pass.
C10_Witness ==
    /\ IsQuant /\ pc = "done" /\ n_centers = 2 /\ step >= 2
    /\ centers[0] # centers[1]
    /\ \E i \in DOMAIN points : points[i] \notin {centers[0], centers[1]}

====
